---------------------------- MODULE Spec2Model ----------------------------
(***************************************************************************)
(* A model of src/app.py: the PubMed query builder, the fetch / export /   *)
(* extract session of the Streamlit script, the spreadsheet export, the    *)
(* entity and relationship extraction loop and the graph assembly.         *)
(*                                                                         *)
(* Python strings whose characters the program looks at (split, strip,     *)
(* join, lower, f-string concatenation, substring tests) are sequences of  *)
(* one-character strings: "No date" is <<"N","o"," ","d","a","t","e">>.    *)
(* Dictionary keys, column names and selectbox choices, which the program  *)
(* only compares whole, are TLA+ strings.                                  *)
(***************************************************************************)
EXTENDS Integers, Sequences, FiniteSets, TLC

VARIABLES
    nlp,            \* the loaded NER model (line 38): text -> tagged spans
    df,             \* st.session_state["df"]: None or Some(DataFrame)
    excel_data,     \* st.session_state["excel_data"]: None (key absent) or Some(buffer)
    html_path,      \* st.session_state["html_path"]: None or Some(path)
    graph_file,     \* the content of graph_download.html on disk: None or Some(net)
    last_action,    \* history: "none", "fetch" or "extract", the last handler that ran
    last_articles,  \* history: what fetch_abstracts returned to the last Fetch handler
    pc,             \* "session", or "call" / "done" around one call of a function
    args,           \* the arguments of the function being called
    ret             \* its return value

vars == <<nlp, df, excel_data, html_path, graph_file, last_action,
          last_articles, pc, args, ret>>

(***************************************************************************)
(* Bounds of the model.                                                    *)
(***************************************************************************)
\* pieces a search term is put together from
MaxPieces == 2
\* articles returned by one fetch / records handed to save_to_excel
MaxArticles == 2
\* rows of the table handed to process_abstracts_from_excel
MaxDocs == 2
\* spans the NER model tags over the whole table
MaxSpans == 3
\* comma-separated entries of the relationship allow-list text
MaxEntries == 2

(***************************************************************************)
(* Python values.                                                          *)
(***************************************************************************)
None == <<>>
Some(x) == <<x>>

\* a missing cell of a DataFrame (what dropna removes); no text equals it
NaN == <<"NaN">>

Range(s) == {s[i] : i \in 1..Len(s)}

RECURSIVE Flatten(_)
Flatten(ss) == IF ss = <<>> THEN <<>> ELSE Head(ss) \o Flatten(Tail(ss))

SeqsUpTo(S, n) == UNION {[1..k -> S] : k \in 0..n}

\* sub in s: s[k+1 .. k+Len(sub)] = sub for some k
Contains(s, sub) ==
    \E k \in 0..(Len(s) - Len(sub)) : SubSeq(s, k + 1, k + Len(sub)) = sub

StartsWith(s, pre) == Len(pre) <= Len(s) /\ SubSeq(s, 1, Len(pre)) = pre

EndsWith(s, suf) ==
    Len(suf) <= Len(s) /\ SubSeq(s, Len(s) - Len(suf) + 1, Len(s)) = suf

\* str.split(sep) for a one-character sep: "" splits into [""]
RECURSIVE split(_, _)
split(s, sep) ==
    IF \E i \in 1..Len(s) : s[i] = sep
    THEN LET i == CHOOSE i \in 1..Len(s) :
                      s[i] = sep /\ \A j \in 1..(i - 1) : s[j] # sep
         IN  <<SubSeq(s, 1, i - 1)>> \o split(SubSeq(s, i + 1, Len(s)), sep)
    ELSE <<s>>

\* str.strip(): leading and trailing whitespace removed
RECURSIVE strip(_)
strip(s) ==
    IF s = <<>> THEN s
    ELSE IF Head(s) = " " THEN strip(Tail(s))
    ELSE IF s[Len(s)] = " " THEN strip(SubSeq(s, 1, Len(s) - 1))
    ELSE s

\* sep.join(xs), xs a sequence of strings
RECURSIVE join(_, _)
join(sep, xs) ==
    IF xs = <<>> THEN <<>>
    ELSE IF Len(xs) = 1 THEN xs[1]
    ELSE xs[1] \o sep \o join(sep, Tail(xs))

\* iterating a str yields its one-character strings
Chars(s) == [i \in 1..Len(s) |-> <<s[i]>>]

LowerChar(c) ==
    CASE c = "A" -> "a" [] c = "B" -> "b" [] c = "C" -> "c" [] OTHER -> c

UpperChar(c) ==
    CASE c = "a" -> "A" [] c = "b" -> "B" [] c = "c" -> "C" [] OTHER -> c

\* str.lower(), str.upper()
lower(s) == [i \in 1..Len(s) |-> LowerChar(s[i])]
upper(s) == [i \in 1..Len(s) |-> UpperChar(s[i])]

(***************************************************************************)
(* construct_query (lines 45-56).                                          *)
(***************************************************************************)
ArticleChoices ==
    {"Clinical Trials", "Meta-Analysis", "Randomized Controlled Trials", "Reviews"}

article_types(choice) ==
    CASE choice = "Clinical Trials" ->
             <<"C","l","i","n","i","c","a","l"," ","T","r","i","a","l","[","p","t","]">>
      [] choice = "Meta-Analysis" ->
             <<"M","e","t","a","-","A","n","a","l","y","s","i","s","[","p","t","]">>
      [] choice = "Randomized Controlled Trials" ->
             <<"R","a","n","d","o","m","i","z","e","d"," ","C","o","n","t","r","o",
               "l","l","e","d"," ","T","r","i","a","l","[","p","t","]">>
      [] choice = "Reviews" ->
             <<"R","e","v","i","e","w","[","p","t","]">>
      [] OTHER -> <<>>

\* " AND "
AndText == <<" ","A","N","D"," ">>
\* "[MeSH Terms]"
MeshTag == <<"[","M","e","S","H"," ","T","e","r","m","s","]">>

\* the bug the MeSH clause invites: appended whether or not mesh_term is empty
construct_query_always_mesh(search_term, mesh_term, choice) ==
    <<"(">> \o search_term \o <<")">> \o AndText \o article_types(choice)
        \o AndText \o mesh_term \o MeshTag

construct_query(search_term, mesh_term, choice) ==
    LET chosen_article_type == article_types(choice)
        query == <<"(">> \o search_term \o <<")">> \o AndText \o chosen_article_type
    IN  IF mesh_term # <<>>
        THEN query \o AndText \o mesh_term \o MeshTag
        ELSE query


(***************************************************************************)
(* Values the variables hold when the part of the program they belong to   *)
(* is not running.                                                         *)
(***************************************************************************)
\* lines 156-159: df and html_path start as None, "excel_data" has no key yet
SessionIdle ==
    /\ df = None
    /\ excel_data = None
    /\ html_path = None
    /\ graph_file = None
    /\ last_action = "none"
    /\ last_articles = <<>>

SessionUnchanged ==
    UNCHANGED <<df, excel_data, html_path, graph_file, last_action, last_articles>>

(***************************************************************************)
(* SpecQuery: one call of construct_query on each input.                   *)
(***************************************************************************)
\* what a typed term is put together from: a word, " AND ", "[MeSH Terms]"
TermPieces == {<<"a">>, AndText, MeshTag}

SearchTerms == {Flatten(ps) : ps \in SeqsUpTo(TermPieces, MaxPieces)}

MeshTerms == {<<>>, <<"m">>, <<"a">>, AndText, MeshTag}

InitQuery ==
    /\ SessionIdle
    /\ nlp = <<>>
    /\ pc = "call"
    /\ args \in [search_term : SearchTerms, mesh_term : MeshTerms,
                 choice : ArticleChoices]
    /\ ret = <<>>

CallConstructQuery ==
    /\ pc = "call"
    /\ ret' = construct_query(args.search_term, args.mesh_term, args.choice)
    /\ pc' = "done"
    /\ UNCHANGED <<nlp, args>>
    /\ SessionUnchanged

NextQuery == CallConstructQuery

SpecQuery == InitQuery /\ [][NextQuery]_vars

\* "(S) AND " followed by the filter string of the chosen article type
QueryHead == <<"(">> \o args.search_term \o <<")">> \o AndText \o article_types(args.choice)

\* " AND M[MeSH Terms]"
MeshClause == AndText \o args.mesh_term \o MeshTag

\* C4 as the spec states it: the query contains "(S) AND " immediately followed
\* by the filter string for A, and contains " AND M[MeSH Terms]" if and only if
\* M is non-empty.
C4_Original ==
    pc = "done" =>
        /\ Contains(ret, QueryHead)
        /\ Contains(ret, MeshClause) <=> (args.mesh_term # <<>>)

\* C4, amended: the query starts with "(S) AND " immediately followed by the
\* filter string for A, and what follows that head is " AND M[MeSH Terms]" when
\* M is non-empty and nothing when M is empty, so the query ends with
\* " AND M[MeSH Terms]" if and only if M is non-empty.
C4_QueryShape ==
    pc = "done" =>
        /\ StartsWith(ret, QueryHead)
        /\ Contains(ret, QueryHead)
        /\ EndsWith(ret, MeshClause) <=> (args.mesh_term # <<>>)
        /\ Len(ret) = Len(QueryHead)
                        + (IF args.mesh_term # <<>> THEN Len(MeshClause) ELSE 0)

\* a query was built from a non-empty search term and a non-empty MeSH term
C4_Witness ==
    /\ pc = "done"
    /\ args.search_term = <<"a">>
    /\ args.mesh_term = <<"m">>
    /\ args.choice = "Clinical Trials"
    /\ EndsWith(ret, <<" ","A","N","D"," ","m">> \o MeshTag)

(***************************************************************************)
(* save_to_excel (lines 77-91).  A Medline record is a dictionary holding  *)
(* some of the keys TI, AU (a list of names), AB, DP, TA.                  *)
(***************************************************************************)
\* dict.get(key, default)
get(d, key, default) == IF key \in DOMAIN d THEN d[key] ELSE default

ExcelColumns == <<"Title", "Authors", "Abstract", "Publication Date", "Journal">>

\* the defaults of lines 80-84
NoTitle == <<"N","o"," ","t","i","t","l","e">>
NoAuthors == <<"N","o"," ","a","u","t","h","o","r","s">>
NoAbstract == <<"N","o"," ","a","b","s","t","r","a","c","t">>
NoDate == <<"N","o"," ","d","a","t","e">>
NoJournal == <<"N","o"," ","j","o","u","r","n","a","l">>

\* lines 79-85: one row of `data`.  The default of 'AU' is the str
\* 'No authors' where a list of names is expected: join iterates over it
\* character by character.
excel_row(article) ==
    [c \in Range(ExcelColumns) |->
        CASE c = "Title" -> get(article, "TI", NoTitle)
          [] c = "Authors" ->
                 join(<<",", " ">>, get(article, "AU", Chars(NoAuthors)))
          [] c = "Abstract" -> get(article, "AB", NoAbstract)
          [] c = "Publication Date" -> get(article, "DP", NoDate)
          [] c = "Journal" -> get(article, "TA", NoJournal)]

\* line 87: pd.DataFrame(data); an empty list gives a frame with no columns
DataFrame(data) ==
    [columns |-> IF data = <<>> THEN <<>> ELSE ExcelColumns, rows |-> data]

\* lines 88-90: to_excel(index=False) writes the header row and one sheet row
\* per frame row, the cells in column order
to_excel(frame) ==
    [header |-> frame.columns,
     cells |-> [i \in 1..Len(frame.rows) |->
                   [j \in 1..Len(frame.columns) |-> frame.rows[i][frame.columns[j]]]]]

save_to_excel(articles) ==
    LET data == [i \in 1..Len(articles) |-> excel_row(articles[i])]
        frame == DataFrame(data)
    IN  [output |-> to_excel(frame), df |-> frame]

(***************************************************************************)
(* SpecExport: one call of save_to_excel on each list of records.          *)
(***************************************************************************)
MedlineKeys == {"TI", "AU", "AB", "DP", "TA"}

\* what a record holds under a key it has
MedlineValue(key) ==
    CASE key = "TI" -> <<"T","1">>
      [] key = "AU" -> << <<"A","n","n">>, <<"B","o">> >>
      [] key = "AB" -> <<"a","b","1">>
      [] key = "DP" -> <<"2","0","2","0">>
      [] key = "TA" -> <<"J">>

ExportArticles == {[k \in ks |-> MedlineValue(k)] : ks \in SUBSET MedlineKeys}

InitExport ==
    /\ SessionIdle
    /\ nlp = <<>>
    /\ pc = "call"
    /\ args \in [articles : SeqsUpTo(ExportArticles, MaxArticles)]
    /\ ret = <<>>

CallSaveToExcel ==
    /\ pc = "call"
    /\ ret' = save_to_excel(args.articles)
    /\ pc' = "done"
    /\ UNCHANGED <<nlp, args>>
    /\ SessionUnchanged

NextExport == CallSaveToExcel

SpecExport == InitExport /\ [][NextExport]_vars

\* the sentinel "No <field>" the spec names for each column
Sentinel(column) ==
    CASE column = "Title" -> NoTitle
      [] column = "Authors" -> NoAuthors
      [] column = "Abstract" -> NoAbstract
      [] column = "Publication Date" -> NoDate
      [] column = "Journal" -> NoJournal

MedlineKeyOf(column) ==
    CASE column = "Title" -> "TI"
      [] column = "Authors" -> "AU"
      [] column = "Abstract" -> "AB"
      [] column = "Publication Date" -> "DP"
      [] column = "Journal" -> "TA"

\* C6: the exported table has one row per record and, given at least one
\* record, the five columns Title, Authors, Abstract, Publication Date, Journal
\* in that order; the cell of every field a record lacks holds the sentinel
\* "No <field>".
C6_MissingFieldsGetSentinel ==
    pc = "done" =>
        /\ Len(ret.df.rows) = Len(args.articles)
        /\ args.articles # <<>> => ret.df.columns = ExcelColumns
        /\ \A i \in 1..Len(args.articles) : \A c \in Range(ExcelColumns) :
               MedlineKeyOf(c) \notin DOMAIN args.articles[i]
                   => ret.df.rows[i][c] = Sentinel(c)

(***************************************************************************)
(* get_bc5cdr_entities (lines 94-96).  nlp maps a text to the spans the    *)
(* model tags in it, each [text, label_].                                  *)
(***************************************************************************)
get_bc5cdr_entities(sent, entity_types) ==
    LET ents == nlp[sent]
        Kept(ent) == ent.label_ \in Range(entity_types)
        kept == SelectSeq(ents, Kept)
    IN  [i \in 1..Len(kept) |-> <<lower(kept[i].text), kept[i].label_>>]

(***************************************************************************)
(* process_abstracts_from_excel (lines 98-115).  A Python dict is the      *)
(* sequence of its items in insertion order, each [key, titles, type].     *)
(***************************************************************************)
dict_keys(d) == {d[i].key : i \in 1..Len(d)}

dict_index(d, key) == CHOOSE i \in 1..Len(d) : d[i].key = key

\* a slip lines 104-105 invite: the record is created anew on every encounter
add_entity_unguarded(entity_to_titles, entity_text, entity_type, title) ==
    IF entity_text \in dict_keys(entity_to_titles)
    THEN [entity_to_titles EXCEPT ![dict_index(entity_to_titles, entity_text)] =
             [key |-> entity_text, titles |-> {title}, type |-> entity_type]]
    ELSE Append(entity_to_titles,
                [key |-> entity_text, titles |-> {title}, type |-> entity_type])

\* the behaviour the spec words describe: the type is overwritten on every encounter
add_entity_overwriting_type(entity_to_titles, entity_text, entity_type, title) ==
    IF entity_text \in dict_keys(entity_to_titles)
    THEN [entity_to_titles EXCEPT ![dict_index(entity_to_titles, entity_text)] =
             [@ EXCEPT !.titles = @ \cup {title}, !.type = entity_type]]
    ELSE Append(entity_to_titles,
                [key |-> entity_text, titles |-> {title}, type |-> entity_type])

\* lines 104-106: the body of the loop over one document's mentions
add_entity(entity_to_titles, entity_text, entity_type, title) ==
    LET present == entity_text \in dict_keys(entity_to_titles)
        d == IF present
             THEN entity_to_titles
             ELSE Append(entity_to_titles,
                         [key |-> entity_text, titles |-> {}, type |-> entity_type])
    IN  [d EXCEPT ![dict_index(d, entity_text)].titles = @ \cup {title}]

\* lines 103-106: the loop over entities[k..]
RECURSIVE add_entities(_, _, _, _)
add_entities(entity_to_titles, entities, k, title) ==
    IF k > Len(entities) THEN entity_to_titles
    ELSE add_entities(add_entity(entity_to_titles, entities[k][1], entities[k][2], title),
                      entities, k + 1, title)

\* a slip line 109 invites: the pair is looked up in one order only
pair_allowed_one_order(entity1, entity2, allowed_relationships) ==
    <<entity1[2], entity2[2]>> \in Range(allowed_relationships)

\* line 109
pair_allowed(entity1, entity2, allowed_relationships) ==
    \/ <<entity1[2], entity2[2]>> \in Range(allowed_relationships)
    \/ <<entity2[2], entity1[2]>> \in Range(allowed_relationships)

\* lines 110-113
edge_row(entity1, entity2) ==
    [source |-> entity1[1], target |-> entity2[1],
     edge |-> entity1[2] \o <<"_","t","o","_">> \o entity2[2]]

\* lines 108-113: itertools.combinations(entities, 2) from the pair of
\* positions (i, j) on, in its order (1,2), (1,3), ..., (2,3), ...
RECURSIVE add_pairs(_, _, _, _, _)
add_pairs(rows, entities, i, j, allowed_relationships) ==
    IF i >= Len(entities) THEN rows
    ELSE IF j > Len(entities)
         THEN add_pairs(rows, entities, i + 1, i + 2, allowed_relationships)
    ELSE add_pairs(
             IF pair_allowed(entities[i], entities[j], allowed_relationships)
             THEN Append(rows, edge_row(entities[i], entities[j]))
             ELSE rows,
             entities, i, j + 1, allowed_relationships)

\* line 101: df[['Abstract', 'Title']].dropna()
dropna(frame) ==
    LET Whole(row) == row["Abstract"] # NaN /\ row["Title"] # NaN
    IN  SelectSeq(frame.rows, Whole)

\* a slip line 100 invites: the dictionary is created inside the loop, so it
\* holds the entities of the last document only
RECURSIVE process_rows_fresh_dict(_, _, _, _, _, _)
process_rows_fresh_dict(docs, n, rows, entity_to_titles, entity_types, allowed) ==
    IF n > Len(docs) THEN [kg_df |-> rows, entity_to_titles |-> entity_to_titles]
    ELSE LET entities == get_bc5cdr_entities(docs[n]["Abstract"], entity_types)
         IN  process_rows_fresh_dict(
                 docs, n + 1,
                 add_pairs(rows, entities, 1, 2, allowed),
                 add_entities(<<>>, entities, 1, docs[n]["Title"]),
                 entity_types, allowed)

\* lines 101-113: the loop over docs[n..]
RECURSIVE process_rows(_, _, _, _, _, _)
process_rows(docs, n, rows, entity_to_titles, entity_types, allowed) ==
    IF n > Len(docs) THEN [kg_df |-> rows, entity_to_titles |-> entity_to_titles]
    ELSE LET entities == get_bc5cdr_entities(docs[n]["Abstract"], entity_types)
         IN  process_rows(
                 docs, n + 1,
                 add_pairs(rows, entities, 1, 2, allowed),
                 add_entities(entity_to_titles, entities, 1, docs[n]["Title"]),
                 entity_types, allowed)

process_abstracts_from_excel(frame, entity_types, allowed_relationships) ==
    process_rows(dropna(frame), 1, <<>>, <<>>, entity_types, allowed_relationships)

(***************************************************************************)
(* visualize_graph_interactive (lines 117-151).  The pyvis Network is what *)
(* the program hands it: the nodes of its add_node calls and the edges of  *)
(* its add_edge calls, in call order.  Layout and rendering are pyvis's.   *)
(***************************************************************************)
\* lines 119-122 and 125
entity_colors(type) ==
    CASE upper(type) = <<"C","H","E","M","I","C","A","L">> -> "green"
      [] upper(type) = <<"D","I","S","E","A","S","E">> -> "red"
      [] OTHER -> "#999999"

\* iteration over a Python set: some order of its elements
SetToSeq(S) == CHOOSE s \in [1..Cardinality(S) -> S] : Range(s) = S

\* lines 124-127
graph_nodes(entity_to_titles) ==
    [i \in 1..Len(entity_to_titles) |->
        [id |-> entity_to_titles[i].key,
         title |-> join(<<"<","b","r",">">>, SetToSeq(entity_to_titles[i].titles)),
         color |-> entity_colors(entity_to_titles[i].type)]]

\* lines 129-131: the rows of kg_df[k..], each added if both ends are nodes
RECURSIVE graph_edges(_, _, _, _)
graph_edges(edges, kg_df, k, node_ids) ==
    IF k > Len(kg_df) THEN edges
    ELSE graph_edges(
             IF kg_df[k].source \in node_ids /\ kg_df[k].target \in node_ids
             THEN Append(edges, [from |-> kg_df[k].source, to |-> kg_df[k].target,
                                 title |-> kg_df[k].edge])
             ELSE edges,
             kg_df, k + 1, node_ids)

\* the file written at lines 133-149 holds the network; the path is returned
visualize_graph_interactive(kg_df, entity_to_titles) ==
    LET nodes == graph_nodes(entity_to_titles)
        node_ids == {nodes[i].id : i \in 1..Len(nodes)}
    IN  [html_path |-> "graph_download.html",
         net |-> [nodes |-> nodes, edges |-> graph_edges(<<>>, kg_df, 1, node_ids)]]

(***************************************************************************)
(* SpecExtract: one run of process_abstracts_from_excel and                *)
(* visualize_graph_interactive (lines 193-195) on each table, NER tagging, *)
(* type list and allow-list.                                               *)
(***************************************************************************)
CHEMICAL == <<"C","H","E","M","I","C","A","L">>
DISEASE == <<"D","I","S","E","A","S","E">>

\* the spans the NER model may tag: "A" and "a" are one entity after
\* lower(), and it is tagged with both types
RawSpans ==
    {[text |-> <<"A">>, label_ |-> CHEMICAL], [text |-> <<"a">>, label_ |-> DISEASE],
     [text |-> <<"b">>, label_ |-> DISEASE], [text |-> <<"c">>, label_ |-> CHEMICAL]}

DocTitles == {<<"T","1">>, <<"T","2">>}

Digits == <<"1", "2", "3", "4", "5", "6", "7", "8", "9">>

\* the abstract of the i-th document: "ab1", "ab2", ...
AbstractText(i) == <<"a", "b", Digits[i]>>

DocRow(title, abstract) ==
    [c \in Range(ExcelColumns) |->
        CASE c = "Title" -> title
          [] c = "Abstract" -> abstract
          [] OTHER -> Sentinel(c)]

EntityTypeLists == {<<CHEMICAL, DISEASE>>, <<DISEASE>>}

AllowLists ==
    {<<>>, << <<CHEMICAL, DISEASE>> >>, << <<DISEASE, CHEMICAL>> >>,
     << <<CHEMICAL, CHEMICAL>>, <<DISEASE, DISEASE>> >>}

\* the titles of n documents; the first row may lack its title
TitleLists(n) ==
    {titles \in [1..n -> DocTitles \cup {NaN}] :
        \A i \in 2..n : titles[i] # NaN}

\* the ways to cut a list of L spans into n consecutive documents
Cuts(n, L) ==
    {cut \in [1..n -> 0..L] :
        /\ cut[n] = L
        /\ \A i \in 1..(n - 1) : cut[i] <= cut[i + 1]}

InitExtract ==
    /\ SessionIdle
    /\ pc = "call"
    /\ ret = <<>>
    /\ \E n \in 0..MaxDocs, flat \in SeqsUpTo(RawSpans, MaxSpans) :
         /\ n = 0 => flat = <<>>
         /\ \E titles \in TitleLists(n) :
            \E cut \in IF n = 0 THEN {<<>>} ELSE Cuts(n, Len(flat)) :
              /\ nlp = [t \in {AbstractText(i) : i \in 1..n} |->
                          LET i == CHOOSE i \in 1..n : AbstractText(i) = t
                          IN  SubSeq(flat, IF i = 1 THEN 1 ELSE cut[i - 1] + 1, cut[i])]
              /\ \E entity_types \in EntityTypeLists, allowed \in AllowLists :
                   args = [df |-> [columns |-> ExcelColumns,
                                   rows |-> [i \in 1..n |->
                                               DocRow(titles[i], AbstractText(i))]],
                           entity_types |-> entity_types,
                           allowed_relationships |-> allowed]

\* lines 193-195
CallProcessAndVisualize ==
    /\ pc = "call"
    /\ LET out == process_abstracts_from_excel(args.df, args.entity_types,
                                               args.allowed_relationships)
           vis == visualize_graph_interactive(out.kg_df, out.entity_to_titles)
       IN  ret' = [kg_df |-> out.kg_df, entity_to_titles |-> out.entity_to_titles,
                   net |-> vis.net]
    /\ pc' = "done"
    /\ UNCHANGED <<nlp, args>>
    /\ SessionUnchanged

NextExtract == CallProcessAndVisualize

SpecExtract == InitExtract /\ [][NextExtract]_vars

\* the documents the run reads
Docs == dropna(args.df)

\* their mention lists: document number -> list of (normalized text, type)
Mentions ==
    [d \in 1..Len(Docs) |-> get_bc5cdr_entities(Docs[d]["Abstract"], args.entity_types)]

\* (d, i, j): positions i < j of document d whose types are on the allow-list
\* in either order; m is the mention lists
Qualifying(m) ==
    {p \in UNION {{<<d, i, j>> : i, j \in 1..Len(m[d])} : d \in DOMAIN m} :
        /\ p[2] < p[3]
        /\ LET t1 == m[p[1]][p[2]][2]
               t2 == m[p[1]][p[3]][2]
           IN  \/ <<t1, t2>> \in Range(args.allowed_relationships)
               \/ <<t2, t1>> \in Range(args.allowed_relationships)}

\* document order, then combination-enumeration order
NotAfter(p, q) ==
    \/ p[1] < q[1]
    \/ p[1] = q[1] /\ p[2] < q[2]
    \/ p[1] = q[1] /\ p[2] = q[2] /\ p[3] <= q[3]

MentionTexts(mentions) == {mentions[k][1] : k \in 1..Len(mentions)}

\* C5: the entity mapping has exactly one record per distinct normalized mention
\* text, and the title set of each record is the set of titles of exactly the
\* documents whose type-filtered mention list contains that text; a document
\* with no qualifying span adds no key and no title.
C5_OneRecordPerTextWithItsTitles ==
    pc = "done" =>
        LET e2t == ret.entity_to_titles
            docs == Docs
            m == Mentions
        IN  /\ \A i, j \in 1..Len(e2t) : e2t[i].key = e2t[j].key => i = j
            /\ dict_keys(e2t) = UNION {MentionTexts(m[d]) : d \in DOMAIN m}
            /\ \A i \in 1..Len(e2t) :
                   e2t[i].titles =
                       {docs[d]["Title"] :
                            d \in {x \in DOMAIN m : e2t[i].key \in MentionTexts(m[x])}}

\* the same entity text was tagged in two documents with different titles, and
\* its record holds both titles
C5_Witness ==
    /\ pc = "done"
    /\ Len(Docs) = 2
    /\ Docs[1]["Title"] # Docs[2]["Title"]
    /\ <<"a">> \in MentionTexts(Mentions[1]) \cap MentionTexts(Mentions[2])
    /\ Len(ret.entity_to_titles) = 1
    /\ ret.entity_to_titles[1].titles = {Docs[1]["Title"], Docs[2]["Title"]}

\* (d, k): the k-th mention of document d is an encounter of `text`
Encounters(m, text) ==
    {e \in UNION {{<<d, k>> : k \in 1..Len(m[d])} : d \in DOMAIN m} :
        m[e[1]][e[2]][1] = text}

EncounterNotAfter(e, f) == e[1] < f[1] \/ (e[1] = f[1] /\ e[2] <= f[2])

FirstEncounter(E) == CHOOSE e \in E : \A f \in E : EncounterNotAfter(e, f)

LastEncounter(E) == CHOOSE e \in E : \A f \in E : EncounterNotAfter(f, e)

parse_entity_types(entity_types_input) ==
    LET parts == split(entity_types_input, ",")
    IN  [i \in 1..Len(parts) |-> strip(parts[i])]

\* a slip line 192 invites: the entry is split without being stripped
parse_allowed_relationships_unstripped(allowed_rel_input) ==
    LET HasDash(rel) == "-" \in Range(rel)
        kept == SelectSeq(split(allowed_rel_input, ","), HasDash)
    IN  [i \in 1..Len(kept) |-> split(kept[i], "-")]

\* line 192
parse_allowed_relationships(allowed_rel_input) ==
    LET HasDash(rel) == "-" \in Range(rel)
        kept == SelectSeq(split(allowed_rel_input, ","), HasDash)
    IN  [i \in 1..Len(kept) |-> split(strip(kept[i]), "-")]

(***************************************************************************)
(* SpecParse: the allow-list text of each list of typed entries, parsed.   *)
(***************************************************************************)
Pads == {<<>>, <<" ">>}

EntityTypeNames == {CHEMICAL, DISEASE}

\* TYPE1-TYPE2, with or without blanks around it
PairEntries ==
    {[kind |-> "pair", t1 |-> t1, t2 |-> t2,
      text |-> l \o t1 \o <<"-">> \o t2 \o r] :
        t1 \in EntityTypeNames, t2 \in EntityTypeNames, l \in Pads, r \in Pads}

\* entries without the separator: empty, blank, a lone type, two words
NoDashEntries ==
    {[kind |-> "nodash", t1 |-> <<>>, t2 |-> <<>>, text |-> l \o w] :
        l \in Pads, w \in {<<>>, CHEMICAL, DISEASE \o <<" ">> \o CHEMICAL}}

\* entries with a separator that are not TYPE1-TYPE2: "-", "CHEMICAL-",
\* "CHEMICAL-DISEASE-DISEASE"
OtherEntries ==
    {[kind |-> "other", t1 |-> <<>>, t2 |-> <<>>, text |-> w] :
        w \in {<<"-">>, CHEMICAL \o <<"-">>,
               CHEMICAL \o <<"-">> \o DISEASE \o <<"-">> \o DISEASE}}

TypedEntries == PairEntries \cup NoDashEntries \cup OtherEntries

InitParse ==
    /\ SessionIdle
    /\ nlp = <<>>
    /\ pc = "call"
    /\ ret = <<>>
    /\ \E k \in 1..MaxEntries : \E entries \in [1..k -> TypedEntries] :
         args = [entries |-> entries,
                 allowed_rel_input |->
                     join(<<",">>, [i \in 1..k |-> entries[i].text])]

CallParseAllowedRelationships ==
    /\ pc = "call"
    /\ ret' = parse_allowed_relationships(args.allowed_rel_input)
    /\ pc' = "done"
    /\ UNCHANGED <<nlp, args>>
    /\ SessionUnchanged

NextParse == CallParseAllowedRelationships

SpecParse == InitParse /\ [][NextParse]_vars

\* C7: every comma-separated entry without "-" is skipped and contributes no
\* AllowedRelationship (the parsed list has one element per entry that holds a
\* "-", in order), and every entry TYPE1-TYPE2 contributes the pair
\* (TYPE1, TYPE2), which matches mentions of those two types in either order.
C7_AllowListParsing ==
    pc = "done" =>
        LET Dashed(e) == e.kind # "nodash"
            dashed == SelectSeq(args.entries, Dashed)
        IN  /\ Len(ret) = Len(dashed)
            /\ \A k \in 1..Len(dashed) :
                   dashed[k].kind = "pair" =>
                       /\ ret[k] = <<dashed[k].t1, dashed[k].t2>>
                       /\ pair_allowed(<<<<"x">>, dashed[k].t1>>,
                                       <<<<"y">>, dashed[k].t2>>, ret)
                       /\ pair_allowed(<<<<"y">>, dashed[k].t2>>,
                                       <<<<"x">>, dashed[k].t1>>, ret)

\* "CHEMICAL, DISEASE-CHEMICAL" was parsed: the first entry was skipped and the
\* second, stripped of its blank, gave (DISEASE, CHEMICAL)
C7_Witness ==
    /\ pc = "done"
    /\ args.allowed_rel_input = CHEMICAL \o <<",", " ">> \o DISEASE \o <<"-">> \o CHEMICAL
    /\ ret = << <<DISEASE, CHEMICAL>> >>
    /\ pair_allowed(<<<<"x">>, CHEMICAL>>, <<<<"y">>, DISEASE>>, ret)

(***************************************************************************)
(* fetch_abstracts (lines 58-75).  What Entrez answers is the caller's     *)
(* environment: esearch raises or returns an IdList, efetch raises or      *)
(* returns one Medline record per identifier.                              *)
(***************************************************************************)
fetch_abstracts(query, num_articles, email, entrez) ==
    IF entrez.raises = "esearch" THEN <<>>                \* lines 73-75
    ELSE IF entrez.records = <<>> THEN <<>>               \* lines 65-66: no ids
    ELSE IF entrez.raises = "efetch" THEN <<>>            \* lines 73-75
    ELSE entrez.records                                   \* lines 68-72

(***************************************************************************)
(* Spec: the session of the Streamlit script (lines 156-206).  Each press  *)
(* of a button reruns the script with the session state kept; one action   *)
(* is one such run.                                                        *)
(***************************************************************************)
\* the bibliographic records PubMed may return
SessionArticles ==
    {[k \in MedlineKeys |-> MedlineValue(k)],
     [k \in {"TI", "AB"} |->
         IF k = "TI" THEN <<"T","2">> ELSE <<"a","b","2">>]}

\* the NER model of the session: what it tags in each abstract
SessionModel ==
    [t \in {<<"a","b","1">>, <<"a","b","2">>, NoAbstract} |->
        CASE t = <<"a","b","1">> ->
                 <<[text |-> <<"A">>, label_ |-> CHEMICAL],
                   [text |-> <<"b">>, label_ |-> DISEASE]>>
          [] t = <<"a","b","2">> ->
                 <<[text |-> <<"a">>, label_ |-> DISEASE],
                   [text |-> <<"b">>, label_ |-> DISEASE],
                   [text |-> <<"c">>, label_ |-> CHEMICAL]>>
          [] OTHER -> <<>>]

\* what Entrez may answer to a search capped at num_articles results
EntrezAnswers(num_articles) ==
    [raises : {"nothing", "esearch", "efetch"},
     records : SeqsUpTo(SessionArticles, num_articles)]

\* what the user may type into the text inputs
EmailInputs == {<<>>, <<"e">>}
SearchTermInputs == {<<>>, <<"a">>}
MeshTermInputs == {<<>>, <<"m">>}
EntityTypesInputs ==
    {CHEMICAL \o <<",", " ">> \o DISEASE, DISEASE}
AllowedRelInputs ==
    {<<>>, CHEMICAL \o <<"-">> \o DISEASE,
     <<" ">> \o DISEASE \o <<"-">> \o DISEASE \o <<",">> \o CHEMICAL}

Init ==
    /\ SessionIdle
    /\ nlp = SessionModel
    /\ pc = "session"
    /\ args = <<>>
    /\ ret = <<>>

\* a slip line 171 invites: the result is stored whether or not it is empty
fetch_stores_always(articles) == TRUE

\* line 171: if articles:
fetch_stores(articles) == articles # <<>>

\* lines 167-175: the run after "Fetch PubMed Articles" is pressed
Fetch ==
    /\ pc = "session"
    /\ \E email \in EmailInputs, search_term \in SearchTermInputs,
          mesh_term \in MeshTermInputs, choice \in ArticleChoices,
          num_articles \in 1..MaxArticles :
       \E entrez \in EntrezAnswers(num_articles) :
         IF email # <<>> /\ search_term # <<>>
         THEN LET query == construct_query(search_term, mesh_term, choice)
                  articles == fetch_abstracts(query, num_articles, email, entrez)
                  saved == save_to_excel(articles)
              IN  /\ IF fetch_stores(articles)
                     THEN /\ df' = Some(saved.df)
                          /\ excel_data' = Some(saved.output)
                     ELSE UNCHANGED <<df, excel_data>>
                  /\ last_action' = "fetch"
                  /\ last_articles' = articles
         ELSE UNCHANGED <<df, excel_data, last_action, last_articles>>
    /\ UNCHANGED <<nlp, html_path, graph_file, pc, args, ret>>

\* lines 185-196: the run after "Process and Generate Graph for Download" is
\* pressed; the button exists only while df is not None
Extract ==
    /\ pc = "session"
    /\ df # None
    /\ \E entity_types_input \in EntityTypesInputs,
          allowed_rel_input \in AllowedRelInputs :
         LET entity_types == parse_entity_types(entity_types_input)
             allowed_relationships == parse_allowed_relationships(allowed_rel_input)
             out == process_abstracts_from_excel(df[1], entity_types,
                                                 allowed_relationships)
             vis == visualize_graph_interactive(out.kg_df, out.entity_to_titles)
         IN  /\ graph_file' = Some(vis.net)
             /\ html_path' = Some(vis.html_path)
    /\ last_action' = "extract"
    /\ UNCHANGED <<nlp, df, excel_data, last_articles, pc, args, ret>>

Next == Fetch \/ Extract

Spec == Init /\ [][Next]_vars

\* lines 177-183 and 198-206: the artifacts the two download buttons offer
ExcelDownload == excel_data
GraphDownload == IF html_path # None THEN graph_file ELSE None

\* the rows of the stored record table (none while there is no table)
TableRows == IF df = None THEN <<>> ELSE df[1].rows

\* C1: after a Fetch the session holds the record set of that fetch and nothing
\* of an earlier one: the table and the spreadsheet buffer are those of the
\* records just returned (absent when none were returned), and no graph
\* artifact of an earlier record set is offered for download.
C1_FetchReplacesTheRecordSet ==
    last_action = "fetch" =>
        /\ IF last_articles = <<>>
           THEN TableRows = <<>> /\ ExcelDownload = None
           ELSE /\ df = Some(save_to_excel(last_articles).df)
                /\ ExcelDownload = Some(save_to_excel(last_articles).output)
        /\ GraphDownload = None

\* C2: once a Fetch returned zero identifiers or its search / fetch call
\* failed, the result set is empty: the exported table has 0 rows, and an
\* Extract run then gives a graph with 0 nodes and 0 edges, whatever happened
\* earlier in the session.
C2_EmptyFetchLeavesNoData ==
    (last_action # "none" /\ last_articles = <<>>) =>
        /\ Len(TableRows) = 0
        /\ last_action = "extract" =>
               /\ graph_file # None
               /\ graph_file[1].nodes = <<>>
               /\ graph_file[1].edges = <<>>

\* the state part of C10
SessionConsistent ==
    /\ df = None <=> excel_data = None
    /\ df # None =>
           /\ excel_data = Some(to_excel(df[1]))
           /\ Len(df[1].rows) >= 1
           /\ df[1].columns = ExcelColumns
    /\ html_path # None => df # None /\ graph_file # None
    /\ last_action = "extract" => df # None

\* C10: in every reachable session state the record table and the spreadsheet
\* buffer are both absent, or both present with the buffer the serialization of
\* that table (one fetch built both); a stored table has at least one row; a
\* graph artifact is present only if a table is; Extract has run only with a
\* table present; and no action takes a table away again.
C10_SessionInvariant ==
    /\ []SessionConsistent
    /\ [][df # None => df' # None]_vars
    /\ [][html_path # None => html_path' # None]_vars

\* a second, different fetch replaced the table of an earlier one, with the
\* graph of the earlier table still stored
C10_Witness ==
    /\ last_action = "fetch"
    /\ df # None
    /\ last_articles # <<>>
    /\ html_path # None
    /\ Len(df[1].rows) = 2
    /\ Len(graph_file[1].nodes) = 2

=============================================================================
